---- MODULE Spec2Model ----
(***************************************************************************)
(* Model of docs/conf.py of the exoplanet case studies: the Sphinx         *)
(* configuration script that stubs heavy dependencies in sys.modules,      *)
(* imports the package, converts every tutorial notebook with              *)
(* `jupyter nbconvert` and then defines the Sphinx settings.               *)
(*                                                                         *)
(* Strings are sequences of pieces.  A piece is either one of the          *)
(* characters that the code treats specially ("/", ".", " ") or a run of   *)
(* ordinary characters that contains none of them ("quickstart",           *)
(* "ipynb", "nbconvert", ...).  Concatenation is \o.                        *)
(***************************************************************************)
EXTENDS Integers, Sequences, FiniteSets, TLC

VARIABLES pc, error, sys_modules, probe, dirExists, files, matches, idx,
          fn, name, procs, log, tutorials, settings

vars == <<pc, error, sys_modules, probe, dirExists, files, matches, idx,
          fn, name, procs, log, tutorials, settings>>

-----------------------------------------------------------------------------
(* Bounds of the model *)

\* longest notebook base name (in pieces) before the ".ipynb" suffix
MaxBase == 2
\* most entries in the _static/notebooks directory
MaxFiles == 2

\* pieces a file name is built from
Alphabet == {"quickstart", ".", " "}

RECURSIVE StringsUpTo(_)
StringsUpTo(n) ==
    IF n = 0 THEN {<<>>}
    ELSE LET shorter == StringsUpTo(n - 1)
         IN  shorter \cup {Append(s, c) : s \in shorter, c \in Alphabet}

Ipynb == <<".", "ipynb">>

\* directory entries that can exist: every base name with the notebook
\* suffix, and two entries that are no notebooks
NotebookNames == {b \o Ipynb : b \in StringsUpTo(MaxBase)}
OtherNames == {<<"quickstart", ".", "py">>, <<"quickstart">>}
FileNames == NotebookNames \cup OtherNames

\* the directory contents: every set of at most n entries
RECURSIVE DirectoriesUpTo(_)
DirectoriesUpTo(n) ==
    IF n = 0 THEN {{}}
    ELSE LET smaller == DirectoriesUpTo(n - 1)
         IN  smaller \cup {d \cup {f} : d \in smaller, f \in FileNames}

-----------------------------------------------------------------------------
(* sys.modules stubs: lines 15-34 *)

MOCK_MODULES ==
    << "numpy", "astropy", "astropy.units", "astropy.constants", "pymc3",
       "pymc3.step_methods.hmc", "pymc3.distributions",
       "pymc3.distributions.transforms", "theano", "theano.ifelse",
       "theano.tensor" >>

\* modules the script itself imports on lines 4-12, before the stubs
PreloadedModules == {"os", "glob", "subprocess", "sys", "unittest.mock"}

InitialModules == [m \in PreloadedModules |-> "module"]

\* attribute names probed on registry entries
AttrNames ==
    {"array", "pi", "__version__", "__path__", "__all__", "__file__",
     "call_count", "called", "side_effect", "return_value", "assert_called",
     "method_calls"}

\* what normal attribute lookup finds on a MagicMock instance, by kind of
\* value; names outside the domain are not found by normal lookup
MagicMockOwn ==
    [a \in {"call_count", "called", "side_effect", "return_value",
            "assert_called", "method_calls"} |->
        CASE a = "call_count"    -> "int"
          [] a = "called"        -> "bool"
          [] a = "side_effect"   -> "NoneType"
          [] a = "return_value"  -> "Mock"
          [] a = "assert_called" -> "method"
          [] a = "method_calls"  -> "list"]

IsDunder(a) == a \in {"__version__", "__path__", "__all__", "__file__"}

\* MagicMock's inherited __getattr__: refuses unsupported dunder names
InheritedGetattr(a) == IF IsDunder(a) THEN "AttributeError" ELSE "MagicMock"

\* Mock.__getattr__ (lines 16-18): a fresh MagicMock for every name
MockGetattr(a) == "MagicMock"

\* getattr(stub, a) on a Mock instance: normal lookup first, __getattr__
\* only as the fallback for names normal lookup does not find
GetAttr(a) ==
    IF a \in DOMAIN MagicMockOwn THEN MagicMockOwn[a] ELSE MockGetattr(a)

Range(s) == {s[i] : i \in 1..Len(s)}

\* variant: the generator skips the first name of the list
StubEntriesSkipFirst ==
    {<<MOCK_MODULES[i], "Mock">> : i \in 2..Len(MOCK_MODULES)}

\* the generator (mod_name, Mock()) for mod_name in MOCK_MODULES
StubEntries == {<<MOCK_MODULES[i], "Mock">> : i \in 1..Len(MOCK_MODULES)}

\* dict.update with an iterable of pairs
DictUpdate(d, pairs) ==
    LET keys == {p[1] : p \in pairs}
    IN  [k \in DOMAIN d \cup keys |->
            IF k \in keys THEN (CHOOSE p \in pairs : p[1] = k)[2] ELSE d[k]]

DictSet(d, k, v) == DictUpdate(d, {<<k, v>>})

-----------------------------------------------------------------------------
(* Paths and names: lines 39-44 *)

Sep == "/"
Dot == "."
Space == " "

NotebookDir == <<"_static", Sep, "notebooks">>
Pattern == <<"*">> \o Ipynb

Positions(s, c) == {i \in 1..Len(s) : s[i] = c}

\* str.rfind for a one-character needle, 1-based; 0 when absent
RFind(s, c) == IF Positions(s, c) = {} THEN 0
               ELSE CHOOSE i \in Positions(s, c) : \A j \in Positions(s, c) : j <= i

\* os.path.join(dirname, name) for a relative name
PathJoin(dir, f) == dir \o <<Sep>> \o f

\* os.path.split(p): (head, tail), the tail being what follows the last
\* separator
PathSplit(p) ==
    LET i == RFind(p, Sep)
    IN  <<SubSeq(p, 1, i - 1), SubSeq(p, i + 1, Len(p))>>

\* index of the first piece at or after `from` and before `dot` that is not
\* a dot; 0 when every one of them is a dot
FirstNonDot(p, from, dot) ==
    LET cand == {k \in from..(dot - 1) : p[k] # Dot}
    IN  IF cand = {} THEN 0 ELSE CHOOSE k \in cand : \A j \in cand : k <= j

\* os.path.splitext(p): (root, ext); the extension starts at the last dot
\* of the last component, and leading dots of that component are no
\* extension
SplitExt(p) ==
    LET sepIndex == RFind(p, Sep)
        dotIndex == RFind(p, Dot)
    IN  IF dotIndex > sepIndex /\ FirstNonDot(p, sepIndex + 1, dotIndex) # 0
        THEN <<SubSeq(p, 1, dotIndex - 1), SubSeq(p, dotIndex, Len(p))>>
        ELSE <<p, <<>>>>

\* variant: the name is cut at the first dot of the file name
DeriveNameFirstDot(path) ==
    LET base == PathSplit(path)[2]
        dots == Positions(base, Dot)
    IN  IF dots = {} THEN base
        ELSE SubSeq(base, 1, (CHOOSE i \in dots : \A j \in dots : i <= j) - 1)

\* line 40: os.path.splitext(os.path.split(fn)[1])[0]
DeriveName(path) == SplitExt(PathSplit(path)[2])[1]

\* line 41: "Building {0}...".format(name)
BuildingMessage(n) == <<"Building", Space>> \o n \o <<Dot, Dot, Dot>>

\* glob._ishidden
IsHidden(f) == Len(f) > 0 /\ f[1] = Dot

IsSuffix(suf, s) ==
    /\ Len(suf) <= Len(s)
    /\ SubSeq(s, Len(s) - Len(suf) + 1, Len(s)) = suf

\* variant: every listed name matches
FnMatchAny(f, pat) == TRUE

\* fnmatch of a name against a pattern "*" + literal
FnMatch(f, pat) == IsSuffix(Tail(pat), f)

\* os.listdir as glob uses it: a missing directory lists nothing
ListDir == IF dirExists THEN files ELSE {}

\* glob.glob("_static/notebooks/*.ipynb") as a set of paths
GlobSet ==
    LET shown == IF IsHidden(Pattern) THEN ListDir
                 ELSE {f \in ListDir : ~IsHidden(f)}
    IN  {PathJoin(NotebookDir, f) : f \in {g \in shown : FnMatch(g, Pattern)}}

\* every order a directory scan may list a set in
Orders(S) ==
    {s \in [1..Cardinality(S) -> S] : \A i, j \in 1..Cardinality(S) :
                                          s[i] = s[j] => i = j}

\* lines 43-44: the command string handed to the shell
CommandLine(path) ==
    <<"jupyter", Space, "nbconvert", Space, "--template", Space,
      "tutorials", Sep, "tutorial_rst", Space, "--to", Space, "rst", Space>>
    \o path \o <<Space, "--output-dir", Space, "tutorials">>

\* the shell's word splitting of a command string: words are the maximal
\* runs of pieces without a space
RECURSIVE ShellWords(_, _, _)
ShellWords(s, cur, acc) ==
    IF s = <<>> THEN (IF cur = <<>> THEN acc ELSE Append(acc, cur))
    ELSE IF Head(s) = Space
         THEN ShellWords(Tail(s), <<>>,
                         IF cur = <<>> THEN acc ELSE Append(acc, cur))
         ELSE ShellWords(Tail(s), Append(cur, Head(s)), acc)

\* shell=True: the argument vector the converter process receives
ShellArgv(cmd) == ShellWords(cmd, <<>>, <<>>)

-----------------------------------------------------------------------------
(* The converter process: jupyter nbconvert --to rst --output-dir tutorials *)

\* positional arguments of the converter's argument vector: what stands
\* between the "--to rst" option and the "--output-dir" option
NotebookArgs(argv) == {argv[k] : k \in 7..(Len(argv) - 2)}

\* the markup file the converter writes for a notebook path
OutputName(path) ==
    <<"tutorials", Sep>> \o SplitExt(PathSplit(path)[2])[1] \o <<Dot, "rst">>

\* files a converter run that exits zero leaves in the output directory:
\* one per argument that names an existing notebook
ConverterOutputs(argv) ==
    {OutputName(a) : a \in {b \in NotebookArgs(argv) :
                               \E f \in ListDir : b = PathJoin(NotebookDir, f)}}

ExitStatuses == {0, 1}

-----------------------------------------------------------------------------
(* Control flow of the script *)

\* variant: the exception is caught and the script goes on
Swallowed(exc, resume) == [pc |-> resume, error |-> exc]

\* an exception raised by a module-level statement: nothing catches it, the
\* load ends there; `resume` is the statement that would have come next
Uncaught(exc, resume) == [pc |-> "aborted", error |-> exc]

\* variant: the loop skips every second item
NextIndexSkip(i) == i + 2

\* the for loop's iterator: position of the item after the one at i
NextIndex(i) == i + 1

\* variant: the child is started and not waited for
AfterSpawnNoWait == "loop"

\* subprocess.check_call: after the child is started the caller waits for it
AfterSpawn == "wait"

\* variant: a failed conversion empties the output directory
TutorialsCleanedOnFailure(status, argv, t) ==
    IF status = 0 THEN t \cup ConverterOutputs(argv) ELSE {}

\* the tutorials directory after check_call returned or raised: nothing
\* is removed when the converter failed
TutorialsAfterExit(status, argv, t) ==
    IF status = 0 THEN t \cup ConverterOutputs(argv) ELSE t

Event(kind, path, text, argv, status) ==
    [kind |-> kind, fn |-> path, text |-> text, argv |-> argv, status |-> status]

SettingNames ==
    {"extensions", "intersphinx_mapping", "templates_path", "source_suffix",
     "master_doc", "project", "author", "copyright", "version", "release",
     "exclude_patterns", "pygments_style", "html_theme_path", "html_theme",
     "html_context", "html_static_path", "html_show_sourcelink"}

NoProbe == [mod |-> "", attr |-> "", result |-> ""]

\* the script's own state before its first statement
InitScript ==
    /\ pc = "import_theme"
    /\ error = "none"
    /\ sys_modules = InitialModules
    /\ probe = NoProbe
    /\ matches = <<>>
    /\ idx = 1
    /\ fn = <<>>
    /\ name = <<>>
    /\ procs = 0
    /\ log = <<>>
    /\ tutorials = {}
    /\ settings = {}

Init ==
    /\ InitScript
    /\ \/ dirExists = FALSE /\ files = {}
       \/ dirExists = TRUE /\ files \in DirectoriesUpTo(MaxFiles)

\* line 8: import sphinx_nameko_theme
ImportTheme ==
    /\ pc = "import_theme"
    /\ \/ /\ sys_modules' = DictSet(sys_modules, "sphinx_nameko_theme", "module")
          /\ pc' = "install_stubs"
          /\ error' = error
       \/ LET r == Uncaught("ImportError: sphinx_nameko_theme", "install_stubs")
          IN  /\ pc' = r.pc
              /\ error' = r.error
              /\ sys_modules' = sys_modules
    /\ UNCHANGED <<probe, dirExists, files, matches, idx, fn, name, procs, log,
                   tutorials, settings>>

\* line 34: sys.modules.update((mod_name, Mock()) for mod_name in MOCK_MODULES)
InstallStubs ==
    /\ pc = "install_stubs"
    /\ sys_modules' = DictUpdate(sys_modules, StubEntries)
    /\ pc' = "import_exoplanet"
    /\ UNCHANGED <<error, probe, dirExists, files, matches, idx, fn, name,
                   procs, log, tutorials, settings>>

\* line 36: import exoplanet; the package's own code decides whether the
\* import succeeds with the stubs in place
ImportExoplanet ==
    /\ pc = "import_exoplanet"
    /\ \/ /\ sys_modules' =
                IF "exoplanet" \in DOMAIN sys_modules THEN sys_modules
                ELSE DictSet(sys_modules, "exoplanet", "module")
          /\ pc' = "glob"
          /\ error' = error
       \/ LET r == Uncaught("ImportError: exoplanet", "glob")
          IN  /\ pc' = r.pc
              /\ error' = r.error
              /\ sys_modules' = sys_modules
    /\ UNCHANGED <<probe, dirExists, files, matches, idx, fn, name, procs, log,
                   tutorials, settings>>

\* line 39: glob.glob(...) lists the directory in scan order
Glob ==
    /\ pc = "glob"
    /\ \E order \in Orders(GlobSet) : matches' = order
    /\ idx' = 1
    /\ pc' = "loop"
    /\ UNCHANGED <<error, sys_modules, probe, dirExists, files, fn, name,
                   procs, log, tutorials, settings>>

\* lines 39-41: the loop takes the next path, derives the name, prints
LoopIter ==
    /\ pc = "loop"
    /\ idx <= Len(matches)
    /\ fn' = matches[idx]
    /\ idx' = NextIndex(idx)
    /\ name' = DeriveName(matches[idx])
    /\ log' = Append(log, Event("print", matches[idx],
                                BuildingMessage(DeriveName(matches[idx])),
                                <<>>, 0))
    /\ pc' = "call"
    /\ UNCHANGED <<error, sys_modules, probe, dirExists, files, matches,
                   procs, tutorials, settings>>

\* line 39: the iterator is exhausted
LoopEnd ==
    /\ pc = "loop"
    /\ idx > Len(matches)
    /\ pc' = "settings"
    /\ UNCHANGED <<error, sys_modules, probe, dirExists, files, matches, idx,
                   fn, name, procs, log, tutorials, settings>>

\* lines 42-44: check_call starts the shell with the command string
Spawn ==
    /\ pc = "call"
    /\ procs' = procs + 1
    /\ log' = Append(log, Event("spawn", fn, <<>>,
                                ShellArgv(CommandLine(fn)), 0))
    /\ pc' = AfterSpawn
    /\ UNCHANGED <<error, sys_modules, probe, dirExists, files, matches, idx,
                   fn, name, tutorials, settings>>

\* lines 42-44: the child exits; check_call returns on status zero and
\* raises CalledProcessError otherwise
Wait ==
    /\ pc = "wait"
    /\ procs > 0
    /\ \E status \in ExitStatuses :
          LET argv == log[Len(log)].argv
              r == IF status = 0 THEN [pc |-> "loop", error |-> error]
                   ELSE Uncaught("CalledProcessError", "loop")
          IN  /\ procs' = procs - 1
              /\ log' = Append(log, Event("exit", fn, <<>>, argv, status))
              /\ tutorials' = TutorialsAfterExit(status, argv, tutorials)
              /\ pc' = r.pc
              /\ error' = r.error
    /\ UNCHANGED <<sys_modules, probe, dirExists, files, matches, idx, fn,
                   name, settings>>

\* lines 46-87: the Sphinx settings
DefineSettings ==
    /\ pc = "settings"
    /\ settings' = SettingNames
    /\ pc' = "done"
    /\ UNCHANGED <<error, sys_modules, probe, dirExists, files, matches, idx,
                   fn, name, procs, log, tutorials>>

Next ==
    \/ ImportTheme
    \/ InstallStubs
    \/ ImportExoplanet
    \/ Glob
    \/ LoopIter
    \/ LoopEnd
    \/ Spawn
    \/ Wait
    \/ DefineSettings

Spec == Init /\ [][Next]_vars

-----------------------------------------------------------------------------
(* Attribute access on the installed stubs *)

\* getattr(sys.modules[m], a) for a stub m, once the stubs are installed
AccessAttr ==
    /\ pc = "import_exoplanet"
    /\ \E k \in 1..Len(MOCK_MODULES), a \in AttrNames :
          /\ MOCK_MODULES[k] \in DOMAIN sys_modules
          /\ sys_modules[MOCK_MODULES[k]] = "Mock"
          /\ probe' = [mod |-> MOCK_MODULES[k], attr |-> a, result |-> GetAttr(a)]
    /\ UNCHANGED <<pc, error, sys_modules, dirExists, files, matches, idx, fn,
                   name, procs, log, tutorials, settings>>

InitAttr == InitScript /\ dirExists = FALSE /\ files = {}

NextAttr == ImportTheme \/ InstallStubs \/ AccessAttr

SpecAttr == InitAttr /\ [][NextAttr]_vars

-----------------------------------------------------------------------------
(* Properties *)

\* the notebook files of the directory that the pattern
\* _static/notebooks/*.ipynb names: not hidden, ending in ".ipynb"
MatchingFiles ==
    {f \in files : dirExists /\ f[1] # "." /\ IsSuffix(<<".", "ipynb">>, f)}

MatchingPaths == {<<"_static", "/", "notebooks", "/">> \o f : f \in MatchingFiles}

\* a path with the four pieces of "_static/notebooks/" and the two pieces
\* of ".ipynb" removed
StripDirExt(path) == SubSeq(path, 5, Len(path) - 2)

Building(n) == <<"Building", " ">> \o n \o <<".", ".", ".">>

EventsOf(kind) == {i \in 1..Len(log) : log[i].kind = kind}

Placeholders == {"MagicMock", "Mock"}

AllStubsPresent ==
    /\ Cardinality(Range(MOCK_MODULES)) = 11
    /\ \A m \in Range(MOCK_MODULES) :
          m \in DOMAIN sys_modules /\ sys_modules[m] = "Mock"

\* C1: a converter that exits non-zero ends the load with a fatal error at
\* that file: the failing exit is the last event of the run (no later
\* progress message or invocation), no file is invoked twice, no setting is
\* defined and no step of the script is enabled any more.
C1_FailFast ==
    /\ \A i \in EventsOf("exit") :
          log[i].status # 0 =>
             /\ i = Len(log)
             /\ pc = "aborted"
             /\ error = "CalledProcessError"
             /\ settings = {}
             /\ ~ENABLED Next
    /\ \A i, j \in EventsOf("spawn") : log[i].fn = log[j].fn => i = j

\* the first converter call failed while another notebook was still to come
C1_Witness ==
    /\ error = "CalledProcessError"
    /\ pc = "aborted"
    /\ idx <= Len(matches)

\* C2: when the loop has ended without a failure, the converter was invoked
\* exactly once for each of the N matching files and for nothing else, and
\* every invocation directly follows the message "Building <name>..." of
\* the same file.
C2_OnePerFile ==
    /\ pc \in {"settings", "done"} =>
          /\ Cardinality(EventsOf("spawn")) = Cardinality(MatchingFiles)
          /\ {log[i].fn : i \in EventsOf("spawn")} = MatchingPaths
    /\ \A i \in EventsOf("spawn") :
          /\ i > 1
          /\ log[i - 1].kind = "print"
          /\ log[i - 1].text = Building(StripDirExt(log[i].fn))

\* two notebooks were converted and the settings defined
C2_Witness ==
    /\ pc = "done"
    /\ Cardinality(MatchingFiles) = 2
    /\ Cardinality(EventsOf("spawn")) = 2

\* C3: with no matching notebook file (the directory may be missing) nothing
\* is printed, no converter runs, the loop raises nothing and ends at once,
\* and the load goes on to define the settings.
C3_NoMatches ==
    MatchingFiles = {} =>
       /\ log = <<>>
       /\ procs = 0
       /\ pc \notin {"call", "wait"}
       /\ error # "CalledProcessError"
       /\ pc = "loop" => (ENABLED LoopEnd /\ ~ENABLED LoopIter)
       /\ pc \in {"loop", "settings", "done"} => error = "none"
       /\ pc = "done" => settings = SettingNames

\* the load finished although the notebook directory does not exist
C3_Witness ==
    /\ ~dirExists
    /\ pc = "done"
    /\ settings = SettingNames
    /\ log = <<>>

\* C4 (as amended): attribute access on an installed stub never raises, and
\* for every name that MagicMock does not define itself it returns a fresh
\* permissive placeholder.
C4_StubAttr ==
    probe.mod # "" =>
       /\ probe.mod \in Range(MOCK_MODULES)
       /\ probe.result # "AttributeError"
       /\ probe.attr \notin {"call_count", "called", "side_effect",
                             "return_value", "assert_called", "method_calls"}
             => probe.result = "MagicMock"

\* a dunder name was read from a stub and gave a placeholder
C4_Witness ==
    /\ probe.mod = "pymc3.step_methods.hmc"
    /\ probe.attr = "__path__"
    /\ probe.result = "MagicMock"

\* C4 (as stated): attribute access with any attribute name on a stub
\* returns a permissive placeholder.
C4_AnyAttrPlaceholder ==
    probe.mod # "" => probe.result \in Placeholders

\* C5: from the import of exoplanet to the end of the process all 11 stubs
\* are in the registry, and no step other than the one installation changes
\* the registry entry of a stub name.
C5_StubsStay ==
    /\ [](pc \notin {"import_theme", "install_stubs"}
            /\ error # "ImportError: sphinx_nameko_theme" => AllStubsPresent)
    /\ [][pc # "install_stubs" =>
            \A m \in Range(MOCK_MODULES) :
               /\ (m \in DOMAIN sys_modules) = (m \in DOMAIN sys_modules')
               /\ m \in DOMAIN sys_modules => sys_modules'[m] = sys_modules[m]]_vars

\* the load finished after at least one conversion, the stubs still there
C5_Witness ==
    /\ pc = "done"
    /\ log # <<>>
    /\ AllStubsPresent

C7_ExactArguments ==
    \A i \in EventsOf("spawn") :
       log[i].argv = << <<"jupyter">>, <<"nbconvert">>,
                        <<"--template">>, <<"tutorials", "/", "tutorial_rst">>,
                        <<"--to">>, <<"rst">>,
                        log[i].fn,
                        <<"--output-dir">>, <<"tutorials">> >>

\* C8: a failed import of exoplanet ends the load before the scan: nothing
\* printed, no converter run, no setting defined, no step enabled.
C8_ImportAbort ==
    error = "ImportError: exoplanet" =>
       /\ pc = "aborted"
       /\ log = <<>>
       /\ matches = <<>>
       /\ procs = 0
       /\ settings = {}
       /\ ~ENABLED Next

\* the import failed with the stubs installed and notebooks waiting
C8_Witness ==
    /\ error = "ImportError: exoplanet"
    /\ AllStubsPresent
    /\ MatchingFiles # {}

\* C9: at most one converter process runs, none runs while the script is
\* anywhere but waiting for it, and every progress message but the first
\* directly follows a converter exit with status zero.
C9_Sequential ==
    /\ procs <= 1
    /\ pc # "wait" => procs = 0
    /\ \A i \in EventsOf("print") :
          i > 1 => (log[i - 1].kind = "exit" /\ log[i - 1].status = 0)
    /\ \A i \in EventsOf("spawn") :
          i < Len(log) => log[i + 1].kind = "exit"

\* the second converter process is running after the first one exited
C9_Witness ==
    /\ procs = 1
    /\ Cardinality(EventsOf("spawn")) = 2
    /\ Cardinality(EventsOf("exit")) = 1

\* C10: after a converter failure aborted the load, the outputs of every
\* conversion that succeeded before are still in the tutorials directory and
\* all stubs are still in the registry.
C10_NoCleanup ==
    error = "CalledProcessError" =>
       /\ \A i \in EventsOf("exit") :
             log[i].status = 0 => ConverterOutputs(log[i].argv) \subseteq tutorials
       /\ AllStubsPresent

\* the second conversion failed, the first one's output is still there
C10_Witness ==
    /\ error = "CalledProcessError"
    /\ \E i \in EventsOf("exit") :
          log[i].status = 0 /\ ConverterOutputs(log[i].argv) # {}
    /\ tutorials # {}

====
